---- MODULE Spec2Model ----
(***************************************************************************)
(* Model of the nitfy watch/poll engine (src/watch.ts: watchLoop,          *)
(* filterNewMessages, shouldTriggerSound, playSound) together with the     *)
(* durable read-state store it shares with the one-shot commands           *)
(* (src/state.ts), and of the one-shot commands of the CLI (src/ntfy.ts:   *)
(* cmdWatch, cmdUnread, cmdRead, cmdConfigAdd, cmdConfigRemove,            *)
(* cmdConfigUse).                                                          *)
(*                                                                         *)
(* The watch loop is an async function on a single JavaScript thread: its  *)
(* code runs in synchronous segments separated by awaits.  The program     *)
(* counter pc names the position of watchLoop; the positions "awaitFetch", *)
(* "awaitPlay" and "sleeping" are the awaits, the only places where other  *)
(* callbacks (the SIGINT listener, a caller aborting the AbortSignal) can  *)
(* run.                                                                    *)
(***************************************************************************)
EXTENDS Integers, Sequences, FiniteSets, TLC

\* ------------------------------------------------------------------------
\* Bounds of the model
\* ------------------------------------------------------------------------
MaxMsgs == 2        \* messages that exist on the server, per topic
MaxTopics == 2      \* length of the topic list handed to watchLoop
MaxInterval == 1    \* the --interval of the session, in seconds
MaxSigints == 2     \* SIGINTs that can be pending at the same time
MaxStart == 1       \* latest session start time (Unix seconds)
MaxFetched == 4     \* messages of the one response handed to the filter
MaxStamp == 1       \* largest timestamp handed to setLastReadTime
MaxIntervalLen == 2 \* characters of the value given to --interval
MaxNow == 2         \* latest clock reading of the read and unread commands

Topics == {"a", "b"}
ProfileName == "home"

\* ------------------------------------------------------------------------
\* Messages (src/api.ts NtfyMessage).  priority 0 stands for an absent
\* priority field.  Ids 2 and 3 share a timestamp (same-second siblings).
\* ------------------------------------------------------------------------
MsgIds == 1..MaxMsgs
MsgTime(i) == (i \div 2) + 1
MsgPriority(i) == (5 * (i - 1)) % 6
Msg(i) == [id |-> i, time |-> MsgTime(i), priority |-> MsgPriority(i)]
MaxTime == MsgTime(MaxMsgs)

RECURSIVE SeqsNoDup(_)
\* every ordering of every subset of S: the possible bodies of one response
SeqsNoDup(S) ==
  {<<>>} \cup UNION {{<<x>> \o s : s \in SeqsNoDup(S \ {x})} : x \in S}

Responses == {[k \in 1..Len(s) |-> Msg(s[k])] : s \in SeqsNoDup(MsgIds)}

Range(s) == {s[k] : k \in 1..Len(s)}

\* ------------------------------------------------------------------------
\* src/state.ts
\* ------------------------------------------------------------------------
EmptyState == [topics |-> [k \in {} |-> [lastReadTime |-> 0]]]

getStateKey(profileName, topic) == profileName \o "/" \o topic

\* variant: a missing entry reads as -1
getLastReadTimeOrMinusOne(state, profileName, topic) ==
  LET key == getStateKey(profileName, topic)
  IN IF key \in DOMAIN state.topics
     THEN state.topics[key].lastReadTime ELSE -1

getLastReadTime(state, profileName, topic) ==
  LET key == getStateKey(profileName, topic)
  IN IF key \in DOMAIN state.topics THEN state.topics[key].lastReadTime ELSE 0

setLastReadTime(state, profileName, topic, time) ==
  LET key == getStateKey(profileName, topic)
  IN [state EXCEPT !.topics =
        [k \in (DOMAIN state.topics) \cup {key} |->
           IF k = key THEN [lastReadTime |-> time] ELSE state.topics[k]]]

\* state.json on disk.  A file is missing, holds text that JSON.parse
\* rejects, or holds the JSON text of a State; the text is kept as its set
\* of "key": {"lastReadTime": n} members.
MissingFile == [kind |-> "missing"]
CorruptFile == [kind |-> "corrupt"]

\* JSON.stringify(state, null, 2) + "\n"
JSONstringify(state) ==
  [kind |-> "json",
   entries |-> {<<k, state.topics[k].lastReadTime>> : k \in DOMAIN state.topics}]

\* JSON.parse(raw) as State: the value for JSON text, a SyntaxError else
JSONparse(file) ==
  IF file.kind = "json"
  THEN [ok |-> TRUE,
        value |->
          [topics |->
             [k \in {e[1] : e \in file.entries} |->
                [lastReadTime |->
                   (CHOOSE e \in file.entries : e[1] = k)[2]]]]]
  ELSE [ok |-> FALSE]

\* variant: the write leaves out the entries whose time is the smallest
saveStateDropOldest(state) ==
  LET all == JSONstringify(state).entries
  IN [kind |-> "json",
      entries |-> {e \in all : \E f \in all : f[2] < e[2]}]

\* writeFileSync(path, JSON.stringify(...)): the new contents of the file
saveState(state) == JSONstringify(state)

\* variant: the catch block reports the file on stderr
loadStateWarns(file) ==
  IF file.kind = "missing"
  THEN [threw |-> FALSE, state |-> EmptyState, stderr |-> <<>>]
  ELSE IF JSONparse(file).ok
       THEN [threw |-> FALSE, state |-> JSONparse(file).value,
             stderr |-> <<>>]
       ELSE [threw |-> FALSE, state |-> EmptyState,
             stderr |-> <<"warning">>]

\* one call of loadState: whether it threw, the State it returned, and the
\* lines it wrote to stderr (the catch block is empty but for the return)
loadStateOutcome(file) ==
  IF file.kind = "missing"
  THEN [threw |-> FALSE, state |-> EmptyState, stderr |-> <<>>]
  ELSE IF JSONparse(file).ok
       THEN [threw |-> FALSE, state |-> JSONparse(file).value,
             stderr |-> <<>>]
       ELSE [threw |-> FALSE, state |-> EmptyState, stderr |-> <<>>]

\* the State loadState returns for the contents of the file
loadState(file) == loadStateOutcome(file).state

\* variant: the update is made in place, so the caller's object changes too
GivenAfterSetInPlace(state, profileName, topic, time) ==
  setLastReadTime(state, profileName, topic, time)

\* the object handed to setLastReadTime, as the caller sees it after the
\* call: the result is built from spreads, the argument is never assigned
GivenAfterSet(state, profileName, topic, time) == state

\* ------------------------------------------------------------------------
\* Pure detection logic of src/watch.ts
\* ------------------------------------------------------------------------
RECURSIVE InsertByTime(_, _)
\* insert m after every element whose time is <= m.time (stable)
InsertByTime(sorted, m) ==
  IF sorted = <<>> THEN <<m>>
  ELSE IF Head(sorted).time <= m.time
       THEN <<Head(sorted)>> \o InsertByTime(Tail(sorted), m)
       ELSE <<m>> \o sorted

\* variant: the batch keeps the order of the response
KeepOrder(s) == s

RECURSIVE SortByTime(_)
\* Array.prototype.sort((a, b) => a.time - b.time): ascending, stable
SortByTime(s) ==
  IF s = <<>> THEN <<>>
  ELSE InsertByTime(SortByTime(SubSeq(s, 1, Len(s) - 1)), s[Len(s)])

\* variant: the filter also keeps a message at the cursor
IsNewerOrEqual(m, lastSeen) == m.time >= lastSeen

IsNewer(m, lastSeen) == m.time > lastSeen

filterNewMessages(messages, lastSeen) ==
  LET newer == SelectSeq(messages, LAMBDA m : IsNewer(m, lastSeen))
  IN SortByTime(newer)

\* (m.priority ?? 3)
EffectivePriority(m) == IF m.priority = 0 THEN 3 ELSE m.priority

\* variant: every message of the batch has to meet the threshold
everyMeetsThreshold(messages, threshold) ==
  \A k \in 1..Len(messages) : EffectivePriority(messages[k]) >= threshold

shouldTriggerSound(messages, threshold) ==
  \E k \in 1..Len(messages) : EffectivePriority(messages[k]) >= threshold

\* options.priorityThreshold ?? 1   (0 stands for an absent option)
Threshold(opt) == IF opt = 0 THEN 1 ELSE opt

\* ------------------------------------------------------------------------
\* State of one watch session
\* ------------------------------------------------------------------------
VARIABLES
  topics,            \* watchLoop argument: the topic list, in polling order
  intervalSeconds,   \* options.intervalSeconds
  noSound,           \* options.noSound
  priorityThreshold, \* options.priorityThreshold (0: not given)
  platform,          \* process.platform ("unread" until playSound reads it)
  startUnix,         \* Math.floor(startTime / 1000)
  stateFile,         \* contents of state.json
  lastSeenTime,      \* Map topic -> cursor
  messageCounts,     \* Map topic -> messages seen in this session
  pc,                \* position of watchLoop
  idx,               \* position of the for loop in topics
  lastTime,          \* local of the loop body: cursor read before the fetch
  remaining,         \* seconds until the sleep timer fires
  aborted,           \* options.signal.aborted
  pending,           \* SIGINTs delivered to the process, not yet dispatched
  rendered,          \* stdout: per topic, the ids of the messages written
  errlog,            \* stderr: topics of the "fetch error" lines of this cycle
  cycleLog,          \* what happened to each list position in this cycle
  batch,             \* local of the loop body: newMessages
  playCalls,         \* calls of playSound for that batch
  spawns,            \* Bun.spawn calls that started a player for that batch
  playerIdx,         \* position in the Linux player chain
  warnings,          \* "no audio player found" lines for that batch
  exits,             \* exit codes of the players started for that batch
  summaries,         \* session summaries written by the SIGINT listener
  exitCode,          \* process exit code (-1: still running)
  args,              \* arguments of the single call under study
  result,            \* what that call returned or did
  mem,               \* the State object a command holds in memory
  given,             \* the State object last handed to setLastReadTime
  lastOp,            \* the last operation on the store or command run
  cfgFile,           \* contents of config.json
  now                \* Math.floor(Date.now() / 1000)

vars == <<topics, intervalSeconds, noSound, priorityThreshold, platform,
          startUnix, stateFile, lastSeenTime, messageCounts, pc, idx,
          lastTime, remaining, aborted, pending, rendered, errlog, cycleLog,
          batch, playCalls, spawns, playerIdx, warnings, exits, summaries,
          exitCode,
          args, result, mem, given, lastOp, cfgFile, now>>

config == <<topics, intervalSeconds, noSound, priorityThreshold, startUnix>>
call == <<args, result>>
store == <<mem, given, lastOp>>
cli == <<cfgFile, now>>
fixed == <<config, platform, stateFile, call, store, cli>>
audio == <<batch, playCalls, spawns, playerIdx, warnings, exits>>
session == <<lastSeenTime, messageCounts, rendered>>
interrupt == <<pending, summaries, exitCode>>

\* no call, no store operation and no command has happened
NoCall == [fn |-> "none"]
NoConfig == [kind |-> "missing"]
CallIdle == args = NoCall /\ result = NoCall
StoreIdle == mem = EmptyState /\ given = EmptyState /\ lastOp = [op |-> "none"]
CliIdle == cfgFile = NoConfig /\ now = 0

TopicLists == UNION {[1..n -> Topics] : n \in 1..MaxTopics}
Thresholds == {0, 4}
Platforms == {"darwin", "linux", "win32"}
StartTimes == 0..MaxStart
\* state.json before the session: topic "a" was marked as read, "b" never
InitStates == {setLastReadTime(EmptyState, ProfileName, "a", MaxTime)}

\* the awaits of watchLoop: the event loop can run other callbacks here
Suspended == {"awaitFetch", "awaitPlay", "sleeping"}

\* watchLoop is resumed by the event loop: no SIGINT is waiting for dispatch
Resumable == pending = 0

TopicSet == Range(topics)

\* variant: the cursor is seeded from the persisted read-state
InitCursorFromState(state, topic, start) ==
  getLastReadTime(state, ProfileName, topic)

\* lastSeenTime.set(topic, startUnix); messageCounts.set(topic, 0)
InitCursor(state, topic, start) == start

Init ==
  /\ topics \in TopicLists
  /\ intervalSeconds = MaxInterval
  /\ noSound \in BOOLEAN
  /\ priorityThreshold \in Thresholds
  /\ platform = "unread"
  /\ startUnix \in StartTimes
  /\ stateFile \in {saveState(s) : s \in InitStates}
  /\ lastSeenTime =
       [t \in TopicSet |-> InitCursor(loadState(stateFile), t, startUnix)]
  /\ messageCounts = [t \in TopicSet |-> 0]
  /\ pc = "loopTop"
  /\ idx = 1
  /\ lastTime = 0
  /\ remaining = 0
  /\ aborted = FALSE
  /\ pending = 0
  /\ rendered = [t \in TopicSet |-> <<>>]
  /\ errlog = <<>>
  /\ cycleLog = [k \in 1..Len(topics) |-> "none"]
  /\ batch = <<>>
  /\ playCalls = 0
  /\ spawns = <<>>
  /\ playerIdx = 1
  /\ warnings = 0
  /\ exits = <<>>
  /\ summaries = <<>>
  /\ exitCode = -1
  /\ CallIdle /\ StoreIdle /\ CliIdle

\* ------------------------------------------------------------------------
\* watchLoop: the polling loop
\* ------------------------------------------------------------------------
Topic == topics[idx]

\* end of one iteration of "for (const topic of topics)"
NextTopic == pc' = "topicHead" /\ idx' = idx + 1

\* the locals and the audio record of an iteration that has not handled a
\* batch
NoAudio ==
  /\ batch' = <<>>
  /\ playCalls' = 0
  /\ spawns' = <<>>
  /\ playerIdx' = 1
  /\ warnings' = 0
  /\ exits' = <<>>

\* while (true) { if (signal?.aborted) break;
LoopTop ==
  /\ pc = "loopTop"
  /\ IF aborted
     THEN pc' = "returned" /\ UNCHANGED idx
     ELSE pc' = "topicHead" /\ idx' = 1
  /\ UNCHANGED <<fixed, session, lastTime, remaining, aborted,
                 errlog, cycleLog, audio, interrupt>>

\* variant: the loop over the topics does not look at the signal
TopicHeadNoAbortCheck ==
  /\ pc = "topicHead"
  /\ IF idx > Len(topics)
     THEN pc' = "preSleep" /\ UNCHANGED lastTime
     ELSE pc' = "awaitFetch" /\ lastTime' = lastSeenTime[Topic]
  /\ NoAudio
  /\ UNCHANGED <<fixed, session, idx, remaining, aborted,
                 errlog, cycleLog, interrupt>>

\* variant: every poll starts from the session start time
CursorAtStart(topic) == startUnix

\* lastSeenTime.get(topic) ?? startUnix: the one entry of the topic's name
CursorOf(topic) ==
  IF topic \in DOMAIN lastSeenTime THEN lastSeenTime[topic] ELSE startUnix

\* for (const topic of topics) { if (signal?.aborted) break;
\*   const lastTime = lastSeenTime.get(topic) ?? startUnix;
\*   const messages = await fetchMessages(..., String(lastTime));
\* a new iteration starts with fresh locals
TopicHead ==
  /\ pc = "topicHead"
  /\ IF idx > Len(topics) \/ aborted
     THEN pc' = "preSleep" /\ UNCHANGED lastTime
     ELSE pc' = "awaitFetch" /\ lastTime' = CursorOf(Topic)
  /\ NoAudio
  /\ UNCHANGED <<fixed, session, idx, remaining, aborted,
                 errlog, cycleLog, interrupt>>

\* variant: the cursor is taken from the first message of the batch
OldestTime(newMessages) == newMessages[1].time

\* const newestTime = newMessages[newMessages.length - 1]!.time;
NewestTime(newMessages) == newMessages[Len(newMessages)].time

\* variant: a batch counts as one message
NewCountOne(prevCount, newMessages) == prevCount + 1

\* messageCounts.set(topic, prevCount + newMessages.length);
NewCount(prevCount, newMessages) == prevCount + Len(newMessages)

\* variant: only the first message of a batch is written before the sound
DisplayFirstOnly(out, newMessages) == Append(out, newMessages[1].id)

\* for (const msg of newMessages) process.stdout.write(...): the output of
\* the topic with the batch written behind it
Display(out, newMessages) ==
  out \o [k \in 1..Len(newMessages) |-> newMessages[k].id]

\* the fetch resolves: filter, advance the cursor, count, display, and
\* decide about the sound; all of it runs without an await in between
FetchReturn ==
  /\ pc = "awaitFetch"
  /\ Resumable
  /\ \E messages \in Responses :
       LET newMessages == filterNewMessages(messages, lastTime)
       IN IF newMessages = <<>>
          THEN /\ NextTopic
               /\ cycleLog' = [cycleLog EXCEPT ![idx] = "empty"]
               /\ UNCHANGED <<session, audio>>
          ELSE /\ lastSeenTime' =
                    [lastSeenTime EXCEPT ![Topic] = NewestTime(newMessages)]
               /\ messageCounts' =
                    [messageCounts EXCEPT
                       ![Topic] = NewCount(messageCounts[Topic], newMessages)]
               /\ rendered' =
                    [rendered EXCEPT ![Topic] = Display(@, newMessages)]
               /\ cycleLog' = [cycleLog EXCEPT ![idx] = "batch"]
               /\ batch' = newMessages
               /\ playCalls' = 0
               /\ spawns' = <<>>
               /\ playerIdx' = 1
               /\ warnings' = 0
               /\ exits' = <<>>
               /\ IF shouldTriggerSound(newMessages,
                                        Threshold(priorityThreshold))
                  THEN pc' = "playSound" /\ UNCHANGED idx
                  ELSE NextTopic
  /\ lastTime' = 0
  /\ UNCHANGED <<fixed, remaining, aborted, errlog, interrupt>>

\* variant: the try/catch is around the for loop, a failure ends the cycle
FetchFailEndsCycle ==
  /\ pc = "awaitFetch"
  /\ Resumable
  /\ errlog' = Append(errlog, Topic)
  /\ cycleLog' = [cycleLog EXCEPT ![idx] = "failed"]
  /\ pc' = "preSleep"
  /\ lastTime' = 0
  /\ UNCHANGED <<fixed, session, idx, remaining, aborted, audio,
                 interrupt>>

\* the fetch rejects: catch (err) { process.stderr.write(`[${topic}] ...`) }
FetchFail ==
  /\ pc = "awaitFetch"
  /\ Resumable
  /\ errlog' = Append(errlog, Topic)
  /\ cycleLog' = [cycleLog EXCEPT ![idx] = "failed"]
  /\ NextTopic
  /\ lastTime' = 0
  /\ UNCHANGED <<fixed, session, remaining, aborted, audio,
                 interrupt>>

\* ------------------------------------------------------------------------
\* playSound
\* ------------------------------------------------------------------------
\* variant: the Linux players are tried in the other order
PlayersPaplayFirst ==
  IF platform = "darwin" THEN <<"afplay">>
  ELSE IF platform = "linux" THEN <<"paplay", "play">>
  ELSE <<>>

Players ==
  IF platform = "darwin" THEN <<"afplay">>
  ELSE IF platform = "linux" THEN <<"play", "paplay">>
  ELSE <<>>

\* const platform = process.platform: the same value at every read
ReadPlatform ==
  /\ platform' \in Platforms
  /\ platform # "unread" => platform' = platform

\* await playSound(soundPath, { noSound, device }): entry of the function
PlaySound ==
  /\ pc = "playSound"
  /\ playCalls' = playCalls + 1
  /\ IF noSound
     THEN NextTopic /\ UNCHANGED <<platform, playerIdx>>
     ELSE /\ ReadPlatform
          /\ IF platform' \in {"darwin", "linux"}
             THEN pc' = "spawn" /\ playerIdx' = 1 /\ UNCHANGED idx
             ELSE NextTopic /\ UNCHANGED playerIdx
  /\ UNCHANGED <<config, stateFile, call, store, cli, session, lastTime, remaining, aborted,
                 errlog, cycleLog, batch, spawns, warnings, exits,
                 interrupt>>

\* Bun.spawn(cmd, ...) for the player at playerIdx: it starts the player or
\* throws (binary not found); after the last Linux player the warning is
\* written
Spawn ==
  /\ pc = "spawn"
  /\ IF playerIdx > Len(Players)
     THEN /\ warnings' = warnings + 1
          /\ NextTopic
          /\ UNCHANGED <<spawns, playerIdx>>
     ELSE \/ /\ spawns' = Append(spawns, Players[playerIdx])
             /\ pc' = "awaitPlay"
             /\ UNCHANGED <<idx, playerIdx, warnings>>
          \/ /\ IF platform = "darwin"
                THEN NextTopic /\ UNCHANGED playerIdx
                ELSE /\ playerIdx' = playerIdx + 1
                     /\ UNCHANGED <<pc, idx>>
             /\ UNCHANGED <<spawns, warnings>>
  /\ UNCHANGED <<fixed, session, lastTime, remaining, aborted,
                 errlog, cycleLog, batch, playCalls, exits, interrupt>>

\* await proc.exited resolves with the player's exit code
PlayerExit ==
  /\ pc = "awaitPlay"
  /\ Resumable
  /\ \E exitCodeOfPlayer \in {0, 1} :
       /\ exits' = Append(exits, exitCodeOfPlayer)
       /\ IF platform = "darwin" \/ exitCodeOfPlayer = 0
          THEN NextTopic /\ UNCHANGED playerIdx
          ELSE /\ playerIdx' = playerIdx + 1
               /\ pc' = "spawn"
               /\ UNCHANGED idx
  /\ UNCHANGED <<fixed, session, lastTime, remaining, aborted,
                 errlog, cycleLog, batch, playCalls, spawns, warnings,
                 interrupt>>

\* ------------------------------------------------------------------------
\* end of a cycle: the sleep
\* ------------------------------------------------------------------------
\* if (signal?.aborted) break;  await sleep(intervalSeconds * 1000);
\* the cycle is over: its record is cleared
PreSleep ==
  /\ pc = "preSleep"
  /\ IF aborted
     THEN pc' = "returned" /\ UNCHANGED remaining
     ELSE pc' = "sleeping" /\ remaining' = intervalSeconds
  /\ cycleLog' = [k \in 1..Len(topics) |-> "none"]
  /\ errlog' = <<>>
  /\ UNCHANGED <<fixed, session, idx, lastTime, aborted, audio,
                 interrupt>>

\* one second of the setTimeout passes
SleepTick ==
  /\ pc = "sleeping"
  /\ Resumable
  /\ remaining > 0
  /\ remaining' = remaining - 1
  /\ UNCHANGED <<fixed, session, pc, idx, lastTime, aborted,
                 errlog, cycleLog, audio, interrupt>>

\* sleep(ms): new Promise((resolve) => setTimeout(resolve, ms)); the promise
\* resolves when the timer fires, and only then
SleepOver == remaining = 0

SleepWake ==
  /\ pc = "sleeping"
  /\ Resumable
  /\ SleepOver
  /\ pc' = "loopTop"
  /\ UNCHANGED <<fixed, session, idx, lastTime, remaining,
                 aborted, errlog, cycleLog, audio, interrupt>>

\* ------------------------------------------------------------------------
\* cancellation
\* ------------------------------------------------------------------------
\* the caller aborts options.signal while watchLoop is suspended
Abort ==
  /\ pc \in Suspended
  /\ Resumable
  /\ ~aborted
  /\ aborted' = TRUE
  /\ UNCHANGED <<fixed, session, pc, idx, lastTime, remaining,
                 errlog, cycleLog, audio, interrupt>>

\* the operator presses Ctrl+C: the OS delivers SIGINT to the process.  A
\* signal that arrives while a synchronous segment runs is dispatched at the
\* next await, so it is taken to arrive there; the listener runs before the
\* loop resumes (a completion queued before the signal commutes with it).
SigintArrive ==
  /\ pc \in Suspended \cup {"returned"}
  /\ pending < MaxSigints
  /\ pending' = pending + 1
  /\ UNCHANGED <<fixed, session, pc, idx, lastTime, remaining,
                 aborted, errlog, cycleLog, audio, summaries, exitCode>>

RECURSIVE SumOver(_, _)
\* Array.from(messageCounts.values()).reduce((sum, n) => sum + n, 0)
SumOver(f, S) ==
  IF S = {} THEN 0
  ELSE LET t == CHOOSE x \in S : TRUE IN f[t] + SumOver(f, S \ {t})

Summary ==
  [topics |-> topics,
   total |-> SumOver(messageCounts, DOMAIN messageCounts),
   breakdown |-> {<<t, messageCounts[t]>> :
                    t \in {u \in DOMAIN messageCounts : messageCounts[u] > 0}}]

\* variant: the listener returns without ending the process
HandlerNoExit == UNCHANGED <<pc, exitCode>>

\* process.exit(0) at the end of the listener
HandlerExit == pc' = "exited" /\ exitCode' = 0

\* process.on("SIGINT", () => { ...summary...; process.exit(0); }): the
\* listener is dispatched by the event loop, so only while watchLoop is
\* suspended or after it returned
SigintHandler ==
  /\ pc \in Suspended \cup {"returned"}
  /\ pending > 0
  /\ pending' = pending - 1
  /\ summaries' = Append(summaries, Summary)
  /\ HandlerExit
  /\ UNCHANGED <<fixed, session, idx, lastTime, remaining,
                 aborted, errlog, cycleLog, audio>>

Next ==
  \/ LoopTop
  \/ TopicHead
  \/ FetchReturn
  \/ FetchFail
  \/ PlaySound
  \/ Spawn
  \/ PlayerExit
  \/ PreSleep
  \/ SleepTick
  \/ SleepWake
  \/ Abort
  \/ SigintArrive
  \/ SigintHandler

Spec == Init /\ [][Next]_vars

\* ------------------------------------------------------------------------
\* Properties of the watch session
\* ------------------------------------------------------------------------
RenderedTimes(t) == {MsgTime(rendered[t][k]) : k \in 1..Len(rendered[t])}

\* C1: within one session no message of a topic is written to stdout more
\* than once, whatever the fetches return and in whatever order.
C1_NoDuplicateRendering ==
  \A t \in DOMAIN rendered :
    \A i, j \in 1..Len(rendered[t]) :
      i # j => rendered[t][i] # rendered[t][j]

\* a later fetch returned an already rendered message again next to a new one
C1_Witness ==
  /\ Len(topics) = 1
  /\ Len(rendered[topics[1]]) = 2
  /\ Len(batch) = 1
  /\ batch[1].id = rendered[topics[1]][2]

\* C2: a step that handles a non-empty batch leaves the topic's cursor at the
\* largest timestamp of the batch, and no step ever lowers a cursor.
C2_CursorMaxAndMonotone ==
  [][/\ rendered' # rendered =>
          /\ \A k \in 1..Len(batch') : batch'[k].time <= lastSeenTime'[Topic]
          /\ \E k \in 1..Len(batch') : batch'[k].time = lastSeenTime'[Topic]
     /\ \A t \in DOMAIN lastSeenTime : lastSeenTime'[t] >= lastSeenTime[t]]_vars

\* a batch of two messages with different timestamps has been handled
C2_Witness ==
  /\ Len(batch) = 2
  /\ batch[1].time < batch[2].time
  /\ \E t \in DOMAIN lastSeenTime : lastSeenTime[t] = batch[2].time

\* C3: a failed fetch writes one error line for its topic, changes no cursor,
\* no counter and no output, and the loop goes on with the next topic; a
\* cycle that is not cancelled polls every topic of the list.
C3_FetchFailureIsolated ==
  /\ [][(pc = "awaitFetch" /\ errlog' # errlog) =>
          /\ errlog' = Append(errlog, Topic)
          /\ lastSeenTime' = lastSeenTime
          /\ messageCounts' = messageCounts
          /\ rendered' = rendered
          /\ pc' = "topicHead"
          /\ idx' = idx + 1]_vars
  /\ []((pc = "preSleep" /\ ~aborted) =>
          \A k \in 1..Len(topics) : cycleLog[k] # "none")
  /\ []((pc = "awaitFetch") => lastTime = lastSeenTime[Topic])

\* in one cycle the fetch of one topic failed and a later, different topic
\* was rendered and had its cursor advanced
C3_Witness ==
  \E j, k \in 1..Len(topics) :
    /\ j < k
    /\ topics[j] # topics[k]
    /\ cycleLog[j] = "failed"
    /\ cycleLog[k] = "batch"
    /\ errlog = <<topics[j]>>
    /\ lastSeenTime[topics[j]] = startUnix
    /\ lastSeenTime[topics[k]] > startUnix
    /\ pc = "preSleep"

\* the iteration that handled the batch, sound included, is over
AudioSettled == pc = "topicHead"

\* some message of the batch has priority (absent: 3) >= the threshold
\* (absent: 1)
BatchMeetsThreshold ==
  \E k \in 1..Len(batch) :
    (IF batch[k].priority = 0 THEN 3 ELSE batch[k].priority)
      >= (IF priorityThreshold = 0 THEN 1 ELSE priorityThreshold)

\* C4 as stated: for every batch exactly one audio player is started if
\* noSound is false and the batch meets the threshold, none otherwise.
C4_OnePlayerPerBatch ==
  (batch # <<>> /\ AudioSettled) =>
    Len(spawns) = IF ~noSound /\ BatchMeetsThreshold THEN 1 ELSE 0

\* C4 amended: for every batch playSound is called exactly once if the batch
\* meets the threshold and not at all otherwise; no player is started when
\* noSound is true or the batch is below the threshold; one call starts the
\* players of the platform in their order, each one only once (macOS at most
\* afplay, Linux play and then possibly paplay, other platforms none).
C4_OneDispatchPerBatch ==
  /\ (batch # <<>> /\ AudioSettled) =>
        playCalls = IF BatchMeetsThreshold THEN 1 ELSE 0
  /\ (noSound \/ ~BatchMeetsThreshold) => spawns = <<>>
  /\ playCalls <= 1
  /\ spawns \in {<<>>, <<"afplay">>, <<"play">>, <<"paplay">>,
                  <<"play", "paplay">>}
  /\ (platform = "darwin") => spawns \in {<<>>, <<"afplay">>}
  /\ (platform = "win32") => spawns = <<>>

\* a batch of two messages of which only one meets the threshold started
\* one player
C4_Witness ==
  /\ Len(batch) = 2
  /\ priorityThreshold = 4
  /\ ~noSound
  /\ AudioSettled
  /\ playCalls = 1
  /\ Len(spawns) = 1

\* C5: once the signal is aborted during the sleep, no further second of the
\* interval is waited out.
C5_SleepInterruptible ==
  [][~(pc = "sleeping" /\ aborted /\ pc' = "sleeping"
       /\ remaining' < remaining)]_vars

\* C6: once the signal is aborted no fetch and no sleep is started, and each
\* of the three checks (top of the cycle, before a topic, before the sleep)
\* leaves the loop.
C6_NoFetchAfterAbort ==
  [][aborted =>
       /\ ~(pc # "awaitFetch" /\ pc' = "awaitFetch")
       /\ ~(pc # "sleeping" /\ pc' = "sleeping")
       /\ (pc = "loopTop" /\ pc' # pc => pc' = "returned")
       /\ (pc = "topicHead" /\ pc' # pc => pc' = "preSleep")
       /\ (pc = "preSleep" /\ pc' # pc => pc' = "returned")]_vars

\* the abort arrived during a fetch and the rest of the cycle was skipped
C6_Witness ==
  /\ pc = "preSleep"
  /\ aborted
  /\ idx <= Len(topics)
  /\ cycleLog[idx] = "none"
  /\ \E k \in 1..Len(topics) : cycleLog[k] = "batch"

\* C7: however many SIGINTs arrive, the summary is written exactly once, by
\* the listener that also ends the process with exit code 0; before that
\* nothing of it is written.
C7_SummaryOnceExitZero ==
  /\ Len(summaries) <= 1
  /\ (pc = "exited") => (Len(summaries) = 1 /\ exitCode = 0)
  /\ (pc # "exited") => (summaries = <<>> /\ exitCode = -1)

\* a second SIGINT arrived behind the one that ended the session
C7_Witness ==
  /\ pc = "exited"
  /\ pending >= 1
  /\ Len(summaries) = 1

\* C8: in every state each topic's counter is the number of its rendered
\* messages, and a summary shows their sum as the total and exactly the
\* topics with a positive count in the breakdown.
C8_CountersMatchRendered ==
  /\ \A t \in DOMAIN messageCounts : messageCounts[t] = Len(rendered[t])
  /\ \A n \in 1..Len(summaries) :
       /\ summaries[n].total =
            Cardinality({<<t, k>> \in (DOMAIN rendered) \X (1..MaxMsgs) :
                           k <= Len(rendered[t])})
       /\ summaries[n].breakdown =
            {<<t, Len(rendered[t])>> :
               t \in {u \in DOMAIN rendered : rendered[u] # <<>>}}

\* a summary with at least two messages and a topic left out of the breakdown
C8_Witness ==
  /\ pc = "exited"
  /\ summaries[1].total >= 2
  /\ Cardinality(summaries[1].breakdown) < Cardinality(TopicSet)

\* C9: once the session has rendered messages of a topic, the read-state
\* entry of (profile, topic) in state.json is at least the newest rendered
\* timestamp.
C9_WatchPersistsReadState ==
  \A t \in DOMAIN rendered :
    \A k \in 1..Len(rendered[t]) :
      getLastReadTime(loadState(stateFile), ProfileName, t) >= MsgTime(rendered[t][k])

\* C10: whatever state.json holds, a cursor starts at the session start
\* time with a counter of 0, stays there until the topic's first batch, and
\* no rendered message has a timestamp at or before the session start.
C10_CursorsSeededAtStart ==
  \A t \in DOMAIN lastSeenTime :
    /\ lastSeenTime[t] >= startUnix
    /\ rendered[t] = <<>> => (lastSeenTime[t] = startUnix /\ messageCounts[t] = 0)
    /\ \A k \in 1..Len(rendered[t]) : MsgTime(rendered[t][k]) > startUnix

\* state.json holds a later read time for the topic, messages at the start
\* time exist, and the session rendered a message
C10_Witness ==
  /\ startUnix = 1
  /\ "a" \in DOMAIN rendered
  /\ getLastReadTime(loadState(stateFile), ProfileName, "a") > startUnix
  /\ rendered["a"] # <<>>

\* ========================================================================
\* One pass of the loop body of watchLoop over one fetch response
\* ========================================================================
\* no watch session is running
WatchIdle ==
  /\ topics = <<>> /\ intervalSeconds = 0 /\ noSound = FALSE
  /\ priorityThreshold = 0 /\ platform = "unread" /\ startUnix = 0
  /\ lastSeenTime = <<>> /\ messageCounts = <<>> /\ pc = "none" /\ idx = 0
  /\ lastTime = 0 /\ remaining = 0 /\ aborted = FALSE /\ pending = 0
  /\ rendered = <<>> /\ errlog = <<>> /\ cycleLog = <<>> /\ batch = <<>>
  /\ playCalls = 0 /\ spawns = <<>> /\ playerIdx = 0 /\ warnings = 0
  /\ exits = <<>>
  /\ summaries = <<>> /\ exitCode = -1

watch == <<config, platform, session, pc, idx, lastTime, remaining, aborted,
           errlog, cycleLog, audio, interrupt>>

FetchedResponses ==
  {[k \in 1..Len(s) |-> Msg(s[k])] : s \in SeqsNoDup(1..MaxFetched)}
Cursors == 0..(MsgTime(MaxFetched) + 1)

FilterInit ==
  /\ WatchIdle /\ StoreIdle /\ CliIdle
  /\ stateFile = MissingFile
  /\ args \in {[fn |-> "fetchMessages", messages |-> r, lastTime |-> c] :
                 r \in FetchedResponses, c \in Cursors}
  /\ result = NoCall

\* const newMessages = filterNewMessages(messages, lastTime);
\* for (const msg of newMessages) process.stdout.write(...)
RenderBatch ==
  /\ result = NoCall
  /\ result' = [fn |-> "render",
                written |-> filterNewMessages(args.messages, args.lastTime)]
  /\ UNCHANGED <<args, stateFile, watch, store, cli>>

FilterNext == RenderBatch

SpecFilter == FilterInit /\ [][FilterNext]_vars

\* C11: the batch written for a topic holds exactly the fetched messages
\* whose time is strictly greater than the cursor (a message at the cursor
\* is left out), each once, in ascending time order whatever the order of
\* the response.
C11_BatchIsNewerSorted ==
  result.fn = "render" =>
    LET out == result.written
        msgs == args.messages
    IN /\ Range(out) = {m \in Range(msgs) : m.time > args.lastTime}
       /\ \A i, j \in 1..Len(out) : i # j => out[i] # out[j]
       /\ \A i, j \in 1..Len(out) : i < j => out[i].time <= out[j].time

\* a response that holds a message at the cursor and newer messages out of
\* time order: the batch written is not in the order of the response
C11_Witness ==
  /\ result.fn = "render"
  /\ Len(result.written) >= 2
  /\ \E k \in 1..Len(args.messages) : args.messages[k].time = args.lastTime
  /\ result.written #
       SelectSeq(args.messages, LAMBDA m : m.time > args.lastTime)

\* ========================================================================
\* The read-state store: calls of src/state.ts in any order
\* ========================================================================
\* (profile, topic) pairs the calls are made with: a second topic of the
\* same profile and the same topic of a second profile
StoreKeys == {<<"home", "a">>, <<"home", "b">>, <<"work", "a">>}
Stamps == 0..MaxStamp

StoreInit ==
  /\ WatchIdle /\ CallIdle /\ CliIdle /\ StoreIdle
  /\ stateFile \in {MissingFile, CorruptFile}

\* const state = loadState();
Load ==
  LET out == loadStateOutcome(stateFile)
  IN /\ mem' = out.state
     /\ lastOp' = [op |-> "load", prev |-> lastOp.op, file |-> stateFile.kind,
                   threw |-> out.threw, stderr |-> out.stderr]
     /\ UNCHANGED <<stateFile, given, watch, call, cli>>

\* state = setLastReadTime(state, profileName, topic, time);
Set(profileName, topic, time) ==
  /\ mem' = setLastReadTime(mem, profileName, topic, time)
  /\ given' = GivenAfterSet(mem, profileName, topic, time)
  /\ lastOp' = [op |-> "set", profile |-> profileName, topic |-> topic,
                time |-> time]
  /\ UNCHANGED <<stateFile, watch, call, cli>>

\* getLastReadTime(state, profileName, topic)
Get(profileName, topic) ==
  /\ lastOp' = [op |-> "get",
                prev |-> IF lastOp.op = "set" THEN lastOp
                         ELSE [op |-> lastOp.op],
                profile |-> profileName, topic |-> topic,
                value |-> getLastReadTime(mem, profileName, topic)]
  /\ UNCHANGED <<stateFile, mem, given, watch, call, cli>>

\* saveState(state);
Save ==
  /\ stateFile' = saveState(mem)
  /\ lastOp' = [op |-> "save"]
  /\ UNCHANGED <<mem, given, watch, call, cli>>

\* cmdRead --topic: loadState, setLastReadTime, saveState in one command
MarkRead(profileName, topic, time) ==
  LET state == setLastReadTime(loadState(stateFile), profileName, topic, time)
  IN /\ stateFile' = saveState(state)
     /\ mem' = state
     /\ lastOp' = [op |-> "read", profile |-> profileName, topic |-> topic,
                   time |-> time]
     /\ UNCHANGED <<given, watch, call, cli>>

StoreNext ==
  \/ Load
  \/ \E k \in StoreKeys, time \in Stamps : Set(k[1], k[2], time)
  \/ \E k \in StoreKeys : Get(k[1], k[2])
  \/ Save
  \/ \E k \in StoreKeys, time \in Stamps \ {0} : MarkRead(k[1], k[2], time)

SpecStore == StoreInit /\ [][StoreNext]_vars

\* the key of the entry of (profile, topic), written out
KeyOf(profileName, topic) == profileName \o "/" \o topic
\* the last-read time a State holds under a key, 0 when it holds none
Held(state, key) ==
  IF key \in DOMAIN state.topics THEN state.topics[key].lastReadTime ELSE 0
\* the last-read time a file holds under a key, 0 when it holds none
OnDisk(file, key) ==
  IF file.kind = "json" /\ \E e \in file.entries : e[1] = key
  THEN (CHOOSE e \in file.entries : e[1] = key)[2]
  ELSE 0
AllKeys == {KeyOf(k[1], k[2]) : k \in StoreKeys}

\* C12: getLastReadTime returns 0 when the store has no entry for the
\* (profile, topic) asked for, and called on the store setLastReadTime
\* returned, for the same profile and topic, it returns the time that was
\* set, whatever the profile, the topic and the time.
C12_GetAfterSet ==
  lastOp.op = "get" =>
    /\ KeyOf(lastOp.profile, lastOp.topic) \notin DOMAIN mem.topics
          => lastOp.value = 0
    /\ ( /\ lastOp.prev.op = "set"
         /\ lastOp.prev.profile = lastOp.profile
         /\ lastOp.prev.topic = lastOp.topic )
          => lastOp.value = lastOp.prev.time

\* a get that follows a set of the same pair with a time above 0
C12_Witness ==
  /\ lastOp.op = "get"
  /\ lastOp.prev.op = "set"
  /\ lastOp.prev.profile = lastOp.profile
  /\ lastOp.prev.topic = lastOp.topic
  /\ lastOp.value = MaxStamp

\* C13: setLastReadTime leaves the State object it is given as it was and
\* changes only the entry of its (profile, topic); marking one topic as
\* read through loadState, setLastReadTime and saveState leaves the time
\* state.json holds for every other topic and profile as it was.
C13_SetChangesOneEntry ==
  [][ /\ lastOp'.op = "set" =>
           /\ given' = mem
           /\ \A key \in AllKeys \ {KeyOf(lastOp'.profile, lastOp'.topic)} :
                 /\ key \in DOMAIN mem'.topics <=> key \in DOMAIN mem.topics
                 /\ Held(mem', key) = Held(mem, key)
      /\ lastOp'.op = "read" =>
           \A key \in AllKeys \ {KeyOf(lastOp'.profile, lastOp'.topic)} :
             OnDisk(stateFile', key) = OnDisk(stateFile, key) ]_vars

\* a topic was marked as read while state.json held two other entries,
\* after a set on a populated store
C13_Witness ==
  /\ lastOp.op = "read"
  /\ stateFile.kind = "json"
  /\ Cardinality(stateFile.entries) = Cardinality(StoreKeys)
  /\ \E key \in AllKeys : OnDisk(stateFile, key) # lastOp.time
  /\ given # EmptyState

\* C14: loadState after saveState returns a store with the same mapping
\* from keys to last-read times as the one saved, for the empty mapping and
\* for a populated one.
C14_SaveLoadRoundTrip ==
  [][ (lastOp.op = "save" /\ lastOp'.op = "load") =>
        /\ DOMAIN mem'.topics = DOMAIN mem.topics
        /\ \A key \in DOMAIN mem.topics :
              mem'.topics[key].lastReadTime = mem.topics[key].lastReadTime
    ]_vars

\* a store with entries of different times was saved and loaded back
C14_Witness ==
  /\ lastOp.op = "load"
  /\ lastOp.prev = "save"
  /\ \E j, k \in DOMAIN mem.topics :
        mem.topics[j].lastReadTime < mem.topics[k].lastReadTime

\* C15 as stated: loadState never fails; a missing file gives the empty
\* store silently; a file that cannot be parsed is reported as a warning
\* and gives the empty store.
C15_CorruptFileWarned ==
  lastOp.op = "load" =>
    /\ ~lastOp.threw
    /\ lastOp.file = "missing" => (mem = EmptyState /\ lastOp.stderr = <<>>)
    /\ lastOp.file = "corrupt" => (mem = EmptyState /\ lastOp.stderr # <<>>)

\* C15, amended: loadState never fails on a missing or unparsable file;
\* both give the empty store and in neither case is anything written to
\* stderr.
C15_LoadNeverFailsSilent ==
  lastOp.op = "load" =>
    /\ ~lastOp.threw
    /\ lastOp.file \in {"missing", "corrupt"} =>
          (mem = EmptyState /\ lastOp.stderr = <<>>)

\* state.json could not be parsed and was loaded
C15_Witness ==
  /\ lastOp.op = "load"
  /\ lastOp.file = "corrupt"
  /\ mem = EmptyState

\* ========================================================================
\* cmdWatch: what the watch command does with its flags before the loop
\* ========================================================================
\* An optional flag value is <<>> (getFlag returned undefined) or <<v>>.
\* The value of --interval is kept as its sequence of characters.
Chars == {"0", "1", "-", "x"}
Digits == <<"0", "1", "2", "3", "4", "5", "6", "7", "8", "9">>
IsDigit(c) == \E i \in 1..Len(Digits) : Digits[i] = c
DigitVal(c) == (CHOOSE i \in 1..Len(Digits) : Digits[i] = c) - 1

RECURSIVE LeadingDigits(_)
\* the longest prefix of str made of digits
LeadingDigits(str) ==
  IF str = <<>> \/ ~IsDigit(Head(str)) THEN <<>>
  ELSE <<Head(str)>> \o LeadingDigits(Tail(str))

RECURSIVE DecimalValue(_)
DecimalValue(ds) ==
  IF ds = <<>> THEN 0
  ELSE 10 * DecimalValue(SubSeq(ds, 1, Len(ds) - 1)) + DigitVal(ds[Len(ds)])

NaN == [nan |-> TRUE]
\* parseInt(str, 10): an optional sign, then the leading digits; what
\* follows them is ignored; NaN when there is no leading digit
parseInt(str) ==
  LET signed == str # <<>> /\ Head(str) \in {"-", "+"}
      body == IF signed THEN Tail(str) ELSE str
      ds == LeadingDigits(body)
  IN IF ds = <<>> THEN NaN
     ELSE [nan |-> FALSE,
           n |-> IF signed /\ Head(str) = "-" THEN 0 - DecimalValue(ds)
                 ELSE DecimalValue(ds)]

PRIORITY_NAMES ==
  [k \in {"min", "minimum", "low", "default", "normal", "high", "urgent",
          "max", "maximum"} |->
     IF k \in {"min", "minimum"} THEN 1
     ELSE IF k = "low" THEN 2
     ELSE IF k \in {"default", "normal"} THEN 3
     ELSE IF k = "high" THEN 4
     ELSE 5]

\* parsePriority(input) for a name or a value of one character; 0 stands
\* for undefined
parsePriority(input) ==
  IF input \in DOMAIN PRIORITY_NAMES THEN PRIORITY_NAMES[input]
  ELSE LET n == parseInt(<<input>>)
       IN IF ~n.nan /\ n.n >= 1 /\ n.n <= 5 THEN n.n ELSE 0

RuntimeError == 1    \* exit code of a runtime error
UsageError == 2      \* exit code of a usage error (bad arguments)
DefaultInterval == 60

\* variant: a named group is looked at before --topic
ResolveTopicsGroupFirst(topicArg, groupArg, profile) ==
  IF groupArg # <<>>
  THEN IF groupArg[1] \notin DOMAIN profile.topicGroups
          \/ profile.topicGroups[groupArg[1]] = <<>>
       THEN [exit |-> RuntimeError, topics |-> <<>>]
       ELSE [exit |-> -1, topics |-> profile.topicGroups[groupArg[1]]]
  ELSE IF topicArg # <<>> THEN [exit |-> -1, topics |-> <<topicArg[1]>>]
  ELSE IF Len(profile.topics) > 0 THEN [exit |-> -1, topics |-> profile.topics]
  ELSE [exit |-> -1, topics |-> <<profile.defaultTopic>>]

\* "Resolve topics to watch": the topic list, or the exit code
ResolveTopics(topicArg, groupArg, profile) ==
  IF topicArg # <<>> THEN [exit |-> -1, topics |-> <<topicArg[1]>>]
  ELSE IF groupArg # <<>>
  THEN IF groupArg[1] \notin DOMAIN profile.topicGroups
          \/ profile.topicGroups[groupArg[1]] = <<>>
       THEN [exit |-> RuntimeError, topics |-> <<>>]
       ELSE [exit |-> -1, topics |-> profile.topicGroups[groupArg[1]]]
  ELSE IF Len(profile.topics) > 0 THEN [exit |-> -1, topics |-> profile.topics]
  ELSE [exit |-> -1, topics |-> <<profile.defaultTopic>>]

\* "Parse interval": the seconds, or the exit code
ResolveInterval(intervalStr) ==
  IF intervalStr = <<>> THEN [exit |-> -1, seconds |-> DefaultInterval]
  ELSE LET n == parseInt(intervalStr[1])
       IN IF n.nan \/ n.n < 1 THEN [exit |-> UsageError, seconds |-> 0]
          ELSE [exit |-> -1, seconds |-> n.n]

\* "Parse priority threshold": the threshold (0: none), or the exit code
ResolvePriority(priorityStr) ==
  IF priorityStr = <<>> THEN [exit |-> -1, threshold |-> 0]
  ELSE IF parsePriority(priorityStr[1]) = 0
       THEN [exit |-> UsageError, threshold |-> 0]
       ELSE [exit |-> -1, threshold |-> parsePriority(priorityStr[1])]

Rejected(code) ==
  [fn |-> "cmdWatch", exit |-> code, stderr |-> 1, started |-> FALSE,
   topics |-> <<>>, intervalSeconds |-> 0, priorityThreshold |-> 0]

\* cmdWatch up to its call of watchLoop: process.exit ends the command at
\* the first check that fails
cmdWatch(a) ==
  LET t == ResolveTopics(a.topicArg, a.groupArg, a.profile)
      i == ResolveInterval(a.intervalStr)
      p == ResolvePriority(a.priorityStr)
  IN IF t.exit # -1 THEN Rejected(t.exit)
     ELSE IF i.exit # -1 THEN Rejected(i.exit)
     ELSE IF p.exit # -1 THEN Rejected(p.exit)
     ELSE [fn |-> "cmdWatch", exit |-> -1, stderr |-> 0, started |-> TRUE,
           topics |-> t.topics, intervalSeconds |-> i.seconds,
           priorityThreshold |-> p.threshold]

RECURSIVE Strings(_)
\* the character sequences of length up to n
Strings(n) ==
  IF n = 0 THEN {<<>>}
  ELSE Strings(n - 1) \cup
       {<<c>> \o str : c \in Chars, str \in {x \in Strings(n - 1) : Len(x) = n - 1}}

WatchProfiles ==
  {[topics |-> ts, topicGroups |-> [g \in {"g"} |-> ms], defaultTopic |-> "a"] :
     ts \in {<<>>, <<"a">>, <<"a", "b">>},
     ms \in {<<>>, <<"b">>, <<"b", "a">>}}

WatchArgs ==
  {[fn |-> "cmdWatch", topicArg |-> t, groupArg |-> g, intervalStr |-> i,
    priorityStr |-> p, profile |-> pr] :
     t \in {<<>>, <<"x">>},
     g \in {<<>>, <<"g">>, <<"nogroup">>},
     i \in {<<>>} \cup {<<str>> : str \in Strings(MaxIntervalLen)},
     p \in {<<>>, <<"high">>, <<"9">>},
     pr \in WatchProfiles}

WatchCmdInit ==
  /\ WatchIdle /\ StoreIdle /\ CliIdle
  /\ stateFile = MissingFile
  /\ args \in WatchArgs
  /\ result = NoCall

\* ntfy watch [--topic t] [--group g] [--interval n] [--priority p]
CmdWatch ==
  /\ result = NoCall
  /\ result' = cmdWatch(args)
  /\ UNCHANGED <<args, stateFile, watch, store, cli>>

WatchCmdNext == CmdWatch

SpecWatchCmd == WatchCmdInit /\ [][WatchCmdNext]_vars

IsNumeral(str) == str # <<>> /\ \A k \in 1..Len(str) : IsDigit(str[k])
\* the watch configuration the flags describe is invalid
InvalidGroup(a) ==
  /\ a.topicArg = <<>> /\ a.groupArg # <<>>
  /\ \/ a.groupArg[1] \notin DOMAIN a.profile.topicGroups
     \/ a.profile.topicGroups[a.groupArg[1]] = <<>>
InvalidInterval(a) ==
  /\ a.intervalStr # <<>>
  /\ \/ ~IsNumeral(a.intervalStr[1])
     \/ DecimalValue(a.intervalStr[1]) < 1

\* C17: an invalid watch configuration (an unknown or empty group, an
\* interval that is not numeric or is less than 1) is rejected before the
\* loop starts: watchLoop is not called and the process exits with the
\* usage-error code.
C17_InvalidConfigUsageError ==
  (result.fn = "cmdWatch" /\ (InvalidGroup(args) \/ InvalidInterval(args))) =>
    (~result.started /\ result.exit = 2)

\* ========================================================================
\* The config commands: config add, config remove, config use, read --all
\* ========================================================================
\* profile names as config add takes them: any non-empty string, so also a
\* name that continues another one behind a "/"
ProfileNames == {"home", "work", "home/x"}

\* loadConfig(): null when config.json does not exist, the Config it holds
\* otherwise
Null == [kind |-> "null"]
loadConfig(file) ==
  IF file.kind = "missing" THEN Null
  ELSE [kind |-> "config", activeProfile |-> file.activeProfile,
        profiles |-> file.profiles]

\* saveConfig(config): the new contents of config.json
saveConfig(cfg) ==
  [kind |-> "json", activeProfile |-> cfg.activeProfile,
   profiles |-> cfg.profiles]

\* config.profiles is an object: its keys keep the order in which they were
\* first assigned.  It is kept as the sequence of its profiles, each with
\* its key as the field name.
\* Object.keys(profiles)
ObjectKeys(profiles) == [k \in 1..Len(profiles) |-> profiles[k].name]
\* profiles[name] is defined
HasProfile(profiles, name) == \E k \in 1..Len(profiles) : profiles[k].name = name
\* profiles[name] = profile
PutProfile(profiles, profile) ==
  IF HasProfile(profiles, profile.name)
  THEN [k \in 1..Len(profiles) |->
          IF profiles[k].name = profile.name THEN profile ELSE profiles[k]]
  ELSE Append(profiles, profile)
\* delete profiles[name]
DeleteProfile(profiles, name) == SelectSeq(profiles, LAMBDA p : p.name # name)

\* key.startsWith(prefix)
startsWith(key, prefix) ==
  Len(key) >= Len(prefix) /\ SubSeq(key, 1, Len(prefix)) = prefix

\* a command that ended in process.exit(code) before it wrote anything
Exited(command, code) ==
  /\ lastOp' = [op |-> command, exit |-> code]
  /\ UNCHANGED <<cfgFile, stateFile>>

\* cmdConfigAdd from loadConfig() on: only a config that does not exist
\* yet is created with the new profile as the active one
AddToConfig(loaded, name, profile) ==
  LET cfg == IF loaded = Null
                THEN [kind |-> "config", activeProfile |-> name,
                      profiles |-> <<>>]
                ELSE loaded
  IN [cfg EXCEPT !.profiles = PutProfile(@, profile)]

\* ntfy config add [name] --url u --user x --password p --topic t
\* valid: validateProfile found no error in the flags
CmdConfigAdd(nameArg, topic, valid) ==
  /\ IF nameArg = <<>> \/ ~valid
     THEN Exited("config add", UsageError)
     ELSE LET profile == [name |-> nameArg[1], defaultTopic |-> topic,
                          topics |-> <<topic>>, topicGroups |-> <<>>]
              cfg == AddToConfig(loadConfig(cfgFile), nameArg[1], profile)
          IN /\ cfgFile' = saveConfig(cfg)
             /\ lastOp' = [op |-> "config add", exit |-> 0]
             /\ UNCHANGED stateFile
  /\ UNCHANGED <<mem, given, now, watch, call>>

\* the config after "delete config.profiles[name]" and the switch of the
\* active profile
RemoveFromConfig(cfg, name) ==
  LET rest == ObjectKeys(DeleteProfile(cfg.profiles, name))
  IN [cfg EXCEPT
        !.profiles = DeleteProfile(@, name),
        !.activeProfile =
           IF cfg.activeProfile # name THEN @
           ELSE IF Len(rest) > 0 THEN rest[1]
           ELSE ""]

\* "Clean up all state keys for this profile"
CleanState(state, name) ==
  [state EXCEPT !.topics =
     [k \in {key \in DOMAIN state.topics : ~startsWith(key, name \o "/")} |->
        state.topics[k]]]

\* ntfy config remove [name]
CmdConfigRemove(nameArg) ==
  /\ IF nameArg = <<>> THEN Exited("config remove", UsageError)
     ELSE IF \/ loadConfig(cfgFile) = Null
             \/ ~HasProfile(loadConfig(cfgFile).profiles, nameArg[1])
     THEN Exited("config remove", RuntimeError)
     ELSE /\ cfgFile' =
               saveConfig(RemoveFromConfig(loadConfig(cfgFile), nameArg[1]))
          /\ stateFile' = saveState(CleanState(loadState(stateFile), nameArg[1]))
          /\ lastOp' = [op |-> "config remove", exit |-> 0,
                         name |-> nameArg[1]]
  /\ UNCHANGED <<mem, given, now, watch, call>>

\* ntfy config use [name]
CmdConfigUse(nameArg) ==
  /\ IF nameArg = <<>> THEN Exited("config use", UsageError)
     ELSE IF \/ loadConfig(cfgFile) = Null
             \/ ~HasProfile(loadConfig(cfgFile).profiles, nameArg[1])
     THEN Exited("config use", RuntimeError)
     ELSE /\ cfgFile' = saveConfig([loadConfig(cfgFile) EXCEPT
                                      !.activeProfile = nameArg[1]])
          /\ lastOp' = [op |-> "config use", exit |-> 0]
          /\ UNCHANGED stateFile
  /\ UNCHANGED <<mem, given, now, watch, call>>

RECURSIVE MarkAll(_, _, _, _)
\* for (const topic of topics) state = setLastReadTime(state, name, topic)
MarkAll(state, profileName, topicList, time) ==
  IF topicList = <<>> THEN state
  ELSE MarkAll(setLastReadTime(state, profileName, Head(topicList), time),
               profileName, Tail(topicList), time)

RECURSIVE MarkAllProfiles(_, _, _)
\* for (const [pName, pProfile] of Object.entries(config.profiles)) ...
MarkAllProfiles(state, profiles, time) ==
  IF profiles = <<>> THEN state
  ELSE MarkAllProfiles(
         MarkAll(state, Head(profiles).name, Head(profiles).topics, time),
         Tail(profiles), time)

\* ntfy read --all
CmdReadAll ==
  /\ IF loadConfig(cfgFile) = Null THEN Exited("read", RuntimeError)
     ELSE /\ stateFile' =
               saveState(MarkAllProfiles(loadState(stateFile),
                                         loadConfig(cfgFile).profiles, now))
          /\ lastOp' = [op |-> "read", exit |-> 0]
          /\ UNCHANGED cfgFile
  /\ UNCHANGED <<mem, given, now, watch, call>>

OptionalNames == {<<>>} \cup {<<n>> : n \in ProfileNames}

ConfigInit ==
  /\ WatchIdle /\ CallIdle /\ StoreIdle
  /\ cfgFile = NoConfig
  /\ stateFile = MissingFile
  /\ now = 1

ConfigNext ==
  \/ \E n \in OptionalNames, t \in Topics, valid \in BOOLEAN :
        CmdConfigAdd(n, t, valid)
  \/ \E n \in OptionalNames : CmdConfigRemove(n)
  \/ \E n \in OptionalNames : CmdConfigUse(n)
  \/ CmdReadAll

SpecConfig == ConfigInit /\ [][ConfigNext]_vars

C27_RemoveCleansOnlyOwnEntries ==
  [][(lastOp'.op = "config remove" /\ lastOp'.exit = 0) =>
       \A p \in ProfileNames, t \in Topics :
         getLastReadTime(loadState(stateFile'), p, t) =
           IF p = lastOp'.name THEN 0
           ELSE getLastReadTime(loadState(stateFile), p, t)]_vars

\* ========================================================================
\* The read and unread commands of one profile
\* ========================================================================
\* the active profile handed to cmdRead and cmdUnread: two watched topics
ReadProfile == [name |-> "home", defaultTopic |-> "a", topics |-> <<"a", "b">>]
OptionalTopics == {<<>>} \cup {<<t>> : t \in Topics}
Sinces == {<<>>, <<"24h">>}
\* the responses in the order the server keeps its messages
ServerResponses ==
  {r \in Responses : \A i, j \in 1..Len(r) : i < j => r[i].id < r[j].id}

\* variant: a message at the last-read time still counts as unread
UnreadOfInclusive(messages, lastRead) ==
  IF lastRead > 0
  THEN SelectSeq(messages, LAMBDA m : m.time >= lastRead)
  ELSE messages

\* lastRead > 0 ? messages.filter((m) => m.time > lastRead) : messages
UnreadOf(messages, lastRead) ==
  IF lastRead > 0
  THEN SelectSeq(messages, LAMBDA m : m.time > lastRead)
  ELSE messages

\* since ?? (lastRead > 0 ? String(lastRead) : "1h")
SinceParam(since, lastRead) ==
  IF since # <<>> THEN since[1]
  ELSE IF lastRead > 0 THEN ToString(lastRead)
  ELSE "1h"

ReadInit ==
  /\ WatchIdle /\ CallIdle /\ StoreIdle
  /\ cfgFile = saveConfig([kind |-> "config", activeProfile |-> ReadProfile.name,
                           profiles |-> <<ReadProfile>>])
  /\ stateFile = MissingFile
  /\ now = 1

\* the clock moves on between two commands
Tick ==
  /\ now < MaxNow
  /\ now' = now + 1
  /\ UNCHANGED <<cfgFile, stateFile, store, watch, call>>

\* ntfy read [--topic t] [--all]
CmdRead(topicArg, allFlag) ==
  LET marked == IF allFlag THEN <<>>
                ELSE IF topicArg # <<>> THEN <<topicArg[1]>>
                ELSE ReadProfile.topics
      state == IF allFlag
               THEN MarkAllProfiles(loadState(stateFile),
                                    loadConfig(cfgFile).profiles, now)
               ELSE MarkAll(loadState(stateFile), ReadProfile.name, marked, now)
  IN /\ IF ~allFlag /\ marked = <<>>
        THEN /\ lastOp' = [op |-> "read", exit |-> RuntimeError]
             /\ UNCHANGED stateFile
        ELSE /\ stateFile' = saveState(state)
             /\ lastOp' = [op |-> "read", exit |-> 0, time |-> now,
                           marked |-> IF allFlag THEN Range(ReadProfile.topics)
                                      ELSE Range(marked)]
     /\ UNCHANGED <<cfgFile, now, mem, given, watch, call>>

\* ntfy unread [--topic t] [--since s]; fetch[t] is what fetchMessages
\* returns for topic t
CmdUnread(topicArg, since) ==
  LET state == loadState(stateFile)
      asked == IF topicArg # <<>> THEN <<topicArg[1]>> ELSE ReadProfile.topics
      lastRead(t) == getLastReadTime(state, ReadProfile.name, t)
  IN /\ IF asked = <<>>
        THEN lastOp' = [op |-> "unread", exit |-> RuntimeError]
        ELSE \E fetch \in [Range(asked) -> ServerResponses] :
             lastOp' =
               [op |-> "unread", exit |-> 0,
                prev |-> IF lastOp.op = "read" THEN lastOp
                         ELSE [op |-> lastOp.op],
                since |-> since, topics |-> asked,
                sinceParam |-> [t \in Range(asked) |->
                                  SinceParam(since, lastRead(t))],
                fetched |-> fetch,
                reported |-> [t \in Range(asked) |->
                                UnreadOf(fetch[t], lastRead(t))]]
     /\ UNCHANGED <<cfgFile, stateFile, now, mem, given, watch, call>>

ReadNext ==
  \/ Tick
  \/ \E t \in OptionalTopics, all \in BOOLEAN : CmdRead(t, all)
  \/ \E t \in OptionalTopics, s \in Sinces : CmdUnread(t, s)

SpecRead == ReadInit /\ [][ReadNext]_vars

\* C19: when unread is run with --since, the last-read time is ignored:
\* the messages reported for a topic are all the messages the fetch
\* returned for it, those at or before the stored last-read time included.
C19_SinceIgnoresLastRead ==
  (lastOp.op = "unread" /\ lastOp.exit = 0 /\ lastOp.since # <<>>) =>
    \A t \in Range(lastOp.topics) : lastOp.reported[t] = lastOp.fetched[t]

\* C20: an unread without --since that follows a read which marked a
\* topic at time t reports for that topic exactly the fetched messages
\* with time > t, in the order fetched; when the fetch returned no message
\* newer than t it reports none.
C20_UnreadAfterRead ==
  ( /\ lastOp.op = "unread" /\ lastOp.exit = 0 /\ lastOp.since = <<>>
    /\ lastOp.prev.op = "read" /\ lastOp.prev.exit = 0 ) =>
    \A t \in Range(lastOp.topics) \cap lastOp.prev.marked :
      LET got == lastOp.fetched[t]
          out == lastOp.reported[t]
      IN /\ out = SelectSeq(got, LAMBDA m : m.time > lastOp.prev.time)
         /\ (\A k \in 1..Len(got) : got[k].time <= lastOp.prev.time)
               => Len(out) = 0

\* both topics were marked and unread then fetched, for one of them, a
\* message at the read time and a newer one: only the newer one is reported
C20_Witness ==
  /\ lastOp.op = "unread" /\ lastOp.exit = 0 /\ lastOp.since = <<>>
  /\ lastOp.prev.op = "read" /\ lastOp.prev.exit = 0
  /\ lastOp.prev.marked = Topics
  /\ Len(lastOp.topics) = 2
  /\ \E t \in Topics :
        /\ \E k \in 1..Len(lastOp.fetched[t]) :
              lastOp.fetched[t][k].time = lastOp.prev.time
        /\ Len(lastOp.reported[t]) = 1
        /\ Len(lastOp.fetched[t]) = 2
  /\ \E t \in Topics :
        /\ lastOp.fetched[t] # <<>>
        /\ lastOp.reported[t] = <<>>

\* ------------------------------------------------------------------------
\* Properties of the audio dispatch
\* ------------------------------------------------------------------------
AudioPcs == {"playSound", "spawn", "awaitPlay"}

\* the players started so far are the Linux players in their order, with
\* those whose spawn threw left out
InLinuxOrder ==
  spawns \in {<<>>, <<"play">>, <<"paplay">>, <<"play", "paplay">>}

\* every started player but the last has exited, and only the last one can
\* have exited with 0
StopsAtFirstSuccess ==
  /\ Len(exits) <= Len(spawns)
  /\ Len(spawns) <= Len(exits) + 1
  /\ \A k \in 1..Len(exits) : exits[k] = 0 => k = Len(spawns)

NoPlayerSucceeded == \A k \in 1..Len(exits) : exits[k] # 0

\* a step taken inside playSound always returns control to the loop: it
\* stays in playSound or moves to the head of the next iteration, and it
\* touches neither the error log, nor the abort flag, nor the exit code
PlaybackStepContinues ==
  (pc \in AudioPcs /\ pc' # pc /\ pc' # "exited") =>
     /\ pc' \in AudioPcs \cup {"topicHead"}
     /\ UNCHANGED <<errlog, aborted, exitCode, cycleLog, rendered,
                    lastSeenTime, messageCounts>>

\* C21: playSound never raises to its caller: on Linux it tries play, then
\* paplay, stops at the first exit code 0, writes one warning exactly when no
\* player succeeded, and a failed playback leaves the session running.
C21_PlaySoundNeverRaises ==
  /\ [](/\ (platform = "linux" /\ ~noSound) =>
             /\ InLinuxOrder
             /\ StopsAtFirstSuccess
             /\ (AudioSettled /\ playCalls = 1) =>
                   (warnings = 1 <=> NoPlayerSucceeded)
        /\ warnings <= 1
        /\ warnings = 1 => (platform = "linux" /\ ~noSound /\ ~(pc \in AudioPcs))
        /\ (platform # "linux" \/ noSound) => warnings = 0)
  /\ [][PlaybackStepContinues]_vars

\* on Linux play could not be started, paplay exited with 1, the warning was
\* written and the loop went on with the next iteration
C21_Witness ==
  /\ platform = "linux"
  /\ ~noSound
  /\ spawns = <<"paplay">>
  /\ exits = <<1>>
  /\ warnings = 1
  /\ AudioSettled
  /\ exitCode = -1

\* ------------------------------------------------------------------------
\* Rendering and audio
\* ------------------------------------------------------------------------
\* the ids of the batch are the last lines written for the topic polled
BatchRendered ==
  LET out == rendered[Topic]
      n == Len(batch)
  IN /\ n > 0
     /\ Len(out) >= n
     /\ \A k \in 1..n : out[Len(out) - n + k] = batch[k].id

\* no step removes a written line
OutputKept ==
  \A t \in DOMAIN rendered :
    /\ Len(rendered'[t]) >= Len(rendered[t])
    /\ SubSeq(rendered'[t], 1, Len(rendered[t])) = rendered[t]

\* C22: in every cycle the whole batch of a topic is written before playSound
\* is called for it, and whatever happens inside playSound the written lines
\* stay written.
C22_RenderBeforeAudio ==
  /\ [](pc \in AudioPcs => BatchRendered)
  /\ [][/\ OutputKept
        /\ pc \in AudioPcs => rendered' = rendered]_vars

\* a batch of two messages is on the screen while the second Linux player
\* runs after the first one could not be started
C22_Witness ==
  /\ pc = "awaitPlay"
  /\ Len(batch) = 2
  /\ spawns = <<"paplay">>
  /\ BatchRendered

\* ------------------------------------------------------------------------
\* A topic listed more than once
\* ------------------------------------------------------------------------
ListedTwice(t) ==
  \E j, k \in 1..Len(topics) : j < k /\ topics[j] = t /\ topics[k] = t

\* C30: the occurrences of a topic listed twice share one cursor and one
\* counter: the later poll of a cycle starts from the cursor the earlier one
\* advanced, so every message of the topic is rendered once and counted once.
C30_DuplicateTopicSharesCursor ==
  \A t \in TopicSet :
    ListedTwice(t) =>
      /\ (pc = "awaitFetch" /\ Topic = t) => lastTime = lastSeenTime[t]
      /\ \A j, k \in 1..Len(rendered[t]) :
            rendered[t][j] = rendered[t][k] => j = k
      /\ \A k \in 1..Len(rendered[t]) :
            MsgTime(rendered[t][k]) <= lastSeenTime[t]
      /\ messageCounts[t] = Len(rendered[t])

\* both polls of topic "a" in one cycle returned a batch: the second one
\* started behind the first, and the two messages are counted as two
C30_Witness ==
  /\ topics = <<"a", "a">>
  /\ cycleLog = <<"batch", "batch">>
  /\ rendered["a"] = <<1, 2>>
  /\ messageCounts["a"] = 2
  /\ lastSeenTime["a"] = MsgTime(2)

\* ========================================================================
\* One topic over the cycles of a session: the body of the topic loop, cycle
\* after cycle, with any response of the server at every poll
\* ========================================================================
\* the server answers with cached messages of the topic, oldest first
PolledResponses ==
  {r \in FetchedResponses : \A i, j \in 1..Len(r) : i < j => r[i].id < r[j].id}

\* result holds the cursor and the ids written so far, args the last poll
CycleInit ==
  /\ WatchIdle /\ StoreIdle /\ CliIdle
  /\ stateFile = MissingFile
  /\ args = NoCall
  /\ result \in {[fn |-> "cycle", cursor |-> c, written |-> <<>>] :
                   c \in 0..MaxStart}

\* const lastTime = lastSeenTime.get(topic) ?? startUnix;
\* const messages = await fetchMessages(...);
\* const newMessages = filterNewMessages(messages, lastTime);
\* if (newMessages.length === 0) continue;
\* lastSeenTime.set(topic, newestTime); ... process.stdout.write(...)
PollCycle ==
  \E messages \in PolledResponses :
    LET newMessages == filterNewMessages(messages, result.cursor)
    IN /\ args' = [fn |-> "fetchMessages", messages |-> messages,
                    lastTime |-> result.cursor]
       /\ result' = IF newMessages = <<>> THEN result
                     ELSE [fn |-> "cycle",
                           cursor |-> NewestTime(newMessages),
                           written |-> Display(result.written, newMessages)]
       /\ UNCHANGED <<stateFile, watch, store, cli>>

CycleNext == PollCycle

SpecCycles == CycleInit /\ [][CycleNext]_vars

Written == Range(result.written)

\* C24: a message whose timestamp equals the cursor of the topic and which
\* is not on the screen (a sibling of a rendered message that shows up in a
\* later response) is not rendered in any later cycle of the session.
C24_SiblingAtCursorNeverRendered ==
  \A i \in 1..MaxFetched :
    []((MsgTime(i) = result.cursor /\ i \notin Written)
         => [](i \notin Written))

\* message 2 was rendered and moved the cursor to its second; a later poll,
\* made with that cursor, returned its sibling 3, which stays unwritten
C24_Witness ==
  /\ args # NoCall
  /\ args.lastTime = MsgTime(2)
  /\ result.cursor = MsgTime(2)
  /\ MsgTime(3) = MsgTime(2)
  /\ 2 \in Written
  /\ Msg(3) \in Range(args.messages)
  /\ 3 \notin Written

\* ========================================================================
\* The state key of two (profile, topic) pairs
\* ========================================================================
\* profile and topic names as the commands accept them: any string, with or
\* without "/" (state.test.ts builds the key of topic "team/infra")
KeyNames == {"prod", "prod/team", "infra", "team/infra"}
KeyPairs == KeyNames \X KeyNames

KeyInit ==
  /\ WatchIdle /\ StoreIdle /\ CliIdle
  /\ stateFile = MissingFile
  /\ args \in {[fn |-> "getStateKey", first |-> p, second |-> q] :
                 p \in KeyPairs, q \in KeyPairs}
  /\ result = NoCall

\* the keys of both pairs, and the value read for the second pair after the
\* last-read time of the first one was set in an empty state
BuildKeys ==
  /\ result = NoCall
  /\ result' =
       [fn |-> "getStateKey",
        first |-> getStateKey(args.first[1], args.first[2]),
        second |-> getStateKey(args.second[1], args.second[2]),
        read |-> getLastReadTime(
                   setLastReadTime(EmptyState, args.first[1], args.first[2],
                                   1),
                   args.second[1], args.second[2])]
  /\ UNCHANGED <<args, stateFile, watch, store, cli>>

KeyNext == BuildKeys

SpecKey == KeyInit /\ [][KeyNext]_vars

\* C23: the key is injective: two distinct (profile, topic) pairs never get
\* the same key, so setting the last-read time of one pair leaves the value
\* read for a different pair unchanged (here: 0, no entry).
C23_StateKeyInjective ==
  (result.fn = "getStateKey" /\ args.first # args.second) =>
     /\ result.first # result.second
     /\ result.read = 0

\* ========================================================================
\* The topics commands on the active profile: topics add, topics remove,
\* topics group add, topics group remove, after config add
\* ========================================================================
\* profile.topicGroups is an object like config.profiles: it is kept as the
\* sequence of its groups [name, members] in the order of their keys, and
\* read and written with HasProfile, PutProfile and DeleteProfile.
GroupNames == {"g", "h"}
OptionalGroups == {<<>>} \cup {<<g>> : g \in GroupNames}
\* positionals.slice(1): no, one or several topic names, repeats included
TopicArgs == {<<>>} \cup TopicLists

\* config.profiles[profileName]!
ProfileAt(cfg, profileName) ==
  cfg.profiles[CHOOSE k \in 1..Len(cfg.profiles) :
                 cfg.profiles[k].name = profileName]

\* variant: only the first element is compared
includesFirstOnly(list, x) == list # <<>> /\ list[1] = x

\* list.includes(x)
includes(list, x) == \E k \in 1..Len(list) : list[k] = x

\* variant: no topic is taken for the default topic
IsDefaultTopicNever(profile, topic) == FALSE

\* topic === profile.defaultTopic
IsDefaultTopic(profile, topic) == topic = profile.defaultTopic

\* list.filter((t) => t !== topic)
Without(list, topic) == SelectSeq(list, LAMBDA t : t # topic)

\* variant: the groups keep the removed topic
PruneGroupsNone(groups, topic) == groups

\* for (const groupName of Object.keys(profile.topicGroups))
\*   profile.topicGroups[groupName] = members.filter((t) => t !== topic)
PruneGroups(groups, topic) ==
  [k \in 1..Len(groups) |->
     [groups[k] EXCEPT !.members = Without(@, topic)]]

\* saveConfig(config) after the profile object was changed in place
SaveProfile(cfg, profile) ==
  saveConfig([cfg EXCEPT !.profiles = PutProfile(@, profile)])

\* delete cleanedTopics[key]
DeleteKey(state, key) ==
  [state EXCEPT !.topics =
     [k \in (DOMAIN state.topics) \ {key} |-> state.topics[k]]]

\* main: the topics subcommands need a config; the profile they change is
\* the active one
NoConfigFound(command) ==
  /\ loadConfig(cfgFile) = Null
  /\ Exited(command, RuntimeError)

\* ntfy topics add [topic]
CmdTopicsAdd(topicArg) ==
  /\ \/ NoConfigFound("topics add")
     \/ /\ loadConfig(cfgFile) # Null
        /\ LET cfg == loadConfig(cfgFile)
               profile == ProfileAt(cfg, cfg.activeProfile)
           IN IF topicArg = <<>> THEN Exited("topics add", UsageError)
              ELSE IF includes(profile.topics, topicArg[1])
              THEN /\ lastOp' = [op |-> "topics add", exit |-> 0,
                                  topic |-> topicArg[1], out |-> "already"]
                   /\ UNCHANGED <<cfgFile, stateFile>>
              ELSE /\ cfgFile' =
                        SaveProfile(cfg,
                          [profile EXCEPT
                             !.topics = Append(@, topicArg[1])])
                   /\ lastOp' = [op |-> "topics add", exit |-> 0,
                                  topic |-> topicArg[1], out |-> "added"]
                   /\ UNCHANGED stateFile
  /\ UNCHANGED <<mem, given, now, watch, call>>

\* ntfy topics remove [topic]
CmdTopicsRemove(topicArg) ==
  /\ \/ NoConfigFound("topics remove")
     \/ /\ loadConfig(cfgFile) # Null
        /\ LET cfg == loadConfig(cfgFile)
               profile == ProfileAt(cfg, cfg.activeProfile)
           IN IF topicArg = <<>> THEN Exited("topics remove", UsageError)
              ELSE IF \/ IsDefaultTopic(profile, topicArg[1])
                      \/ ~includes(profile.topics, topicArg[1])
              THEN /\ lastOp' = [op |-> "topics remove",
                                  exit |-> RuntimeError,
                                  topic |-> topicArg[1]]
                   /\ UNCHANGED <<cfgFile, stateFile>>
              ELSE /\ cfgFile' =
                        SaveProfile(cfg,
                          [profile EXCEPT
                             !.topics = Without(@, topicArg[1]),
                             !.topicGroups = PruneGroups(@, topicArg[1])])
                   /\ stateFile' =
                        saveState(DeleteKey(loadState(stateFile),
                                            cfg.activeProfile \o "/"
                                              \o topicArg[1]))
                   /\ lastOp' = [op |-> "topics remove", exit |-> 0,
                                  topic |-> topicArg[1]]
  /\ UNCHANGED <<mem, given, now, watch, call>>

\* ntfy topics group add [group-name] [topic1 topic2 ...]
CmdTopicsGroupAdd(groupArg, topicArgs) ==
  /\ \/ NoConfigFound("topics group add")
     \/ /\ loadConfig(cfgFile) # Null
        /\ LET cfg == loadConfig(cfgFile)
               profile == ProfileAt(cfg, cfg.activeProfile)
               unknownTopics ==
                 SelectSeq(topicArgs, LAMBDA t : ~includes(profile.topics, t))
           IN IF groupArg = <<>> \/ topicArgs = <<>>
              THEN Exited("topics group add", UsageError)
              ELSE IF Len(unknownTopics) > 0
              THEN Exited("topics group add", RuntimeError)
              ELSE /\ cfgFile' =
                        SaveProfile(cfg,
                          [profile EXCEPT
                             !.topicGroups =
                                PutProfile(@, [name |-> groupArg[1],
                                               members |-> topicArgs])])
                   /\ lastOp' = [op |-> "topics group add", exit |-> 0]
                   /\ UNCHANGED stateFile
  /\ UNCHANGED <<mem, given, now, watch, call>>

\* ntfy topics group remove [group-name]
CmdTopicsGroupRemove(groupArg) ==
  /\ \/ NoConfigFound("topics group remove")
     \/ /\ loadConfig(cfgFile) # Null
        /\ LET cfg == loadConfig(cfgFile)
               profile == ProfileAt(cfg, cfg.activeProfile)
           IN IF groupArg = <<>>
              THEN Exited("topics group remove", UsageError)
              ELSE IF ~HasProfile(profile.topicGroups, groupArg[1])
              THEN Exited("topics group remove", RuntimeError)
              ELSE /\ cfgFile' =
                        SaveProfile(cfg,
                          [profile EXCEPT
                             !.topicGroups = DeleteProfile(@, groupArg[1])])
                   /\ lastOp' = [op |-> "topics group remove", exit |-> 0]
                   /\ UNCHANGED stateFile
  /\ UNCHANGED <<mem, given, now, watch, call>>

TopicsInit ==
  /\ WatchIdle /\ CallIdle /\ StoreIdle
  /\ cfgFile = NoConfig
  /\ stateFile = MissingFile
  /\ now = 1

TopicsNext ==
  \/ \E t \in Topics, valid \in BOOLEAN :
        CmdConfigAdd(<<ProfileName>>, t, valid)
  \/ \E t \in OptionalTopics : CmdTopicsAdd(t)
  \/ \E t \in OptionalTopics : CmdTopicsRemove(t)
  \/ \E g \in OptionalGroups, ts \in TopicArgs : CmdTopicsGroupAdd(g, ts)
  \/ \E g \in OptionalGroups : CmdTopicsGroupRemove(g)
  \/ CmdReadAll

SpecTopics == TopicsInit /\ [][TopicsNext]_vars

\* the profiles config.json holds
SavedProfiles ==
  IF cfgFile.kind = "json" THEN Range(cfgFile.profiles) ELSE {}

\* C25: after any sequence of topics add, topics remove, topics group add
\* and topics group remove, every member of every topic group of a profile
\* is in the watched-topic list of the profile.
C25_GroupMembersAreWatched ==
  \A profile \in SavedProfiles :
    \A k \in 1..Len(profile.topicGroups) :
      \A j \in 1..Len(profile.topicGroups[k].members) :
        includes(profile.topics, profile.topicGroups[k].members[j])

\* a topic was removed and a group that listed only that topic is left with
\* no member
C25_Witness ==
  /\ lastOp.op = "topics remove"
  /\ lastOp.exit = 0
  /\ \E profile \in SavedProfiles :
       /\ ~includes(profile.topics, lastOp.topic)
       /\ \E k \in 1..Len(profile.topicGroups) :
            profile.topicGroups[k].members = <<>>

\* an add of a topic that is in the list already changes no file
AddOfPresentTopicKeepsList ==
  (lastOp'.op = "topics add" /\ lastOp'.exit = 0
     /\ \E profile \in SavedProfiles :
          /\ profile.name = cfgFile.activeProfile
          /\ includes(profile.topics, lastOp'.topic)) =>
    UNCHANGED <<cfgFile, stateFile>>

\* C26: after any sequence of config add, topics add and topics remove the
\* watched-topic list of a profile has no topic twice, and adding a topic
\* that is already in the list leaves the list unchanged.
C26_NoDuplicateTopics ==
  /\ [](\A profile \in SavedProfiles :
          \A j, k \in 1..Len(profile.topics) :
            profile.topics[j] = profile.topics[k] => j = k)
  /\ [][AddOfPresentTopicKeepsList]_vars

\* "topics add b" was run on a list that held b already: the command said
\* so and the list is a, b
C26_Witness ==
  /\ lastOp.op = "topics add"
  /\ lastOp.exit = 0
  /\ lastOp.out = "already"
  /\ lastOp.topic = "b"
  /\ \E profile \in SavedProfiles : profile.topics = <<"a", "b">>

\* a remove of the default topic ends with exit code 1 and changes no file
RemoveOfDefaultRefused ==
  (lastOp'.op = "topics remove"
     /\ cfgFile.kind = "json"
     /\ \E profile \in SavedProfiles :
          /\ profile.name = cfgFile.activeProfile
          /\ lastOp'.exit # UsageError
          /\ lastOp'.topic = profile.defaultTopic) =>
    /\ lastOp'.exit = RuntimeError
    /\ UNCHANGED <<cfgFile, stateFile>>

\* C29: after any sequence of config add, topics add and topics remove the
\* default topic of a profile is in its watched-topic list, which is
\* therefore never empty; removing the default topic is refused and leaves
\* config and state as they were.
C29_DefaultTopicWatched ==
  /\ [](\A profile \in SavedProfiles :
          /\ includes(profile.topics, profile.defaultTopic)
          /\ profile.topics # <<>>)
  /\ [][RemoveOfDefaultRefused]_vars

\* "topics remove a" was refused for the default topic a of a profile that
\* watches a and b and has a read-state entry for a
C29_Witness ==
  /\ cfgFile.kind = "json"
  /\ lastOp.op = "topics remove"
  /\ lastOp.exit = RuntimeError
  /\ lastOp.topic = "a"
  /\ \E profile \in SavedProfiles :
       /\ profile.defaultTopic = "a"
       /\ profile.topics = <<"a", "b">>
  /\ getLastReadTime(loadState(stateFile), ProfileName, "a") = 1

\* ========================================================================
\* Two CLI processes that mark topics as read on the same state file
\* ========================================================================
\* each process runs one "ntfy read": args[i] holds the topics it marks,
\* mem[i] the State it loaded, result[i] how far it is
Procs == {1, 2}

\* ntfy read --topic a, ntfy read --topic b, ntfy read (every topic of the
\* profile)
ReadCommands == {<<"a">>, <<"b">>, ReadProfile.topics}

RaceInit ==
  /\ WatchIdle
  /\ given = EmptyState /\ lastOp = [op |-> "none"]
  /\ cfgFile = saveConfig([kind |-> "config",
                           activeProfile |-> ReadProfile.name,
                           profiles |-> <<ReadProfile>>])
  /\ stateFile \in {MissingFile, CorruptFile}
  /\ now = 1
  /\ args \in [Procs -> ReadCommands]
  /\ mem = [i \in Procs |-> EmptyState]
  /\ result = [i \in Procs |-> [pc |-> "start", saw |-> {}, time |-> 0]]

\* the processes whose save is on disk
Saved == {j \in Procs : result[j].pc = "done"}

\* let state = loadState();
ProcLoad(i) ==
  /\ result[i].pc = "start"
  /\ mem' = [mem EXCEPT ![i] = loadState(stateFile)]
  /\ result' = [result EXCEPT ![i] = [pc |-> "loaded", saw |-> Saved,
                                       time |-> 0]]
  /\ UNCHANGED <<args, stateFile, given, lastOp, watch, cli>>

\* variant: the save merges the marks into what is on disk at that moment
SavedByMerging(loaded, file, marks, time) ==
  saveState(MarkAll(loadState(file), ReadProfile.name, marks, time))

\* state = setLastReadTime(state, profileName, topic) for every topic of the
\* command, then saveState(state): the whole file is replaced by the State
\* the process holds
SavedBy(loaded, file, marks, time) ==
  saveState(MarkAll(loaded, ReadProfile.name, marks, time))

ProcSave(i) ==
  /\ result[i].pc = "loaded"
  /\ stateFile' = SavedBy(mem[i], stateFile, args[i], now)
  /\ result' = [result EXCEPT ![i] = [pc |-> "done", saw |-> @.saw,
                                       time |-> now]]
  /\ UNCHANGED <<args, mem, given, lastOp, watch, cli>>

RaceNext ==
  \/ \E i \in Procs : ProcLoad(i)
  \/ \E i \in Procs : ProcSave(i)
  \/ Tick

SpecRace == RaceInit /\ [][RaceNext]_vars

OnDiskTime(file, topic) ==
  getLastReadTime(loadState(file), ReadProfile.name, topic)

\* the save of process i replaces the file by what i loaded plus its own
\* marks: every topic of its command is at the time of the save, and every
\* other topic is as i loaded it, whatever was on disk just before
WholeFileSave(i) ==
  (result[i].pc = "loaded" /\ result'[i].pc = "done") =>
    \A t \in Topics :
      OnDiskTime(stateFile', t) =
        IF includes(args[i], t) THEN now
        ELSE getLastReadTime(mem[i], ReadProfile.name, t)

\* the two invocations did not overlap: one loaded after the other saved
Sequential == \E i, j \in Procs : i # j /\ j \in result[i].saw

\* every mark of every finished process is on disk
NothingLost ==
  \A i \in Saved : \A t \in Range(args[i]) : OnDiskTime(stateFile, t) >= 1

\* C28: a command loads the state, modifies it and saves the whole file
\* without a lock: a save keeps the marks of its own invocation and what it
\* loaded, nothing else; two processes that do not overlap lose no update.
C28_UnlockedLoadModifySave ==
  /\ [][\A i \in Procs : WholeFileSave(i)]_vars
  /\ []((Saved = Procs /\ Sequential) => NothingLost)
  /\ [](\A i \in Procs : (Saved = {i}) => NothingLost)

\* process 1 marked a, process 2 marked b, both loaded before either saved,
\* both are done, and the mark of one of them is not on disk
C28_Witness ==
  /\ args = [i \in Procs |-> IF i = 1 THEN <<"a">> ELSE <<"b">>]
  /\ Saved = Procs
  /\ \A i \in Procs : result[i].saw = {}
  /\ \E t \in Topics : OnDiskTime(stateFile, t) = 0

====
